---- MODULE Spec2Model ----
(***************************************************************************)
(* Model of the mortgage engine of MtgCalc:                                *)
(*   backend/src/services/mortgageService.js  (MortgageService)            *)
(*   backend/src/utils/mathUtils.js           (roundToCents,               *)
(*     validateNumber; the text of this file is in                         *)
(*     backend/src/middleware/logger.js, after the logger)                 *)
(*                                                                         *)
(* Number representation.  JavaScript numbers are IEEE doubles; here a     *)
(* JavaScript value is a record [t, v]:                                    *)
(*   t = "num"   a finite number, v its value in the unit of the quantity  *)
(*   t = "nan"   NaN            t = "inf" / "ninf"   +Infinity / -Infinity *)
(*   t = "str"   a value whose typeof is not 'number'                      *)
(* Units of v:                                                             *)
(*   money           mills, 1/1000 dollar (a cent is 10 mills), so that an *)
(*                   amount that is not a whole number of cents exists     *)
(*   interest rate   1/1000 percent (the API keeps 3 decimals)             *)
(*   loan term       years                                                 *)
(*   reals inside the formulas (monthly rate, powers)   1/Scale            *)
(* Products and quotients are evaluated exactly (MulDivMod) and rounded    *)
(* once to the unit of the result, as a double rounds to its last bit.     *)
(***************************************************************************)
EXTENDS Integers, Naturals, Sequences, FiniteSets, TLC

(***************************************************************************)
(* Exact integer arithmetic that stays inside TLC's 32-bit integers        *)
(***************************************************************************)

\* TLC evaluates the argument of an operator anew at every use when it checks
\* an invariant or ENABLED; a variable bound over a one-element set holds a
\* value.  The operators below bind their intermediate results in that way,
\* so that each is computed once.

\* from h = <<q, r>> of a * n over c, <<q, r>> of a * (2 * n + bit) over c
DoubleQuotient(h, bit, a, c) ==
  LET r2 == 2 * h[2] + bit * (a % c)
  IN  <<2 * h[1] + bit * (a \div c) + (r2 \div c), r2 % c>>

\* <<q, r>> with a * b = q * c + r and 0 <= r < c, for a, b >= 0, 0 < c
\* (used only on that domain)
RECURSIVE MulDivMod(_, _, _)
MulDivMod(a, b, c) ==
  IF c <= 0 \/ a <= 0 \/ b <= 0 THEN <<0, 0>>
  ELSE CHOOSE qr \in {DoubleQuotient(h, b % 2, a, c) : h \in {MulDivMod(a, b \div 2, c)}} :
         TRUE

Abs(x) == IF x < 0 THEN -x ELSE x

\* from m = <<q, r>> of |a * b| over |c|, a * b / c rounded to the nearest
\* integer, halves toward +Infinity
RoundQuotient(m, a, b, c) ==
  IF (a < 0) = ((b < 0) = (c < 0))
  THEN -(m[1]) - (IF 2 * m[2] > Abs(c) THEN 1 ELSE 0)
  ELSE m[1] + (IF 2 * m[2] >= Abs(c) THEN 1 ELSE 0)

\* a * b / c rounded to the nearest integer, halves toward +Infinity
\* (the rounding of Math.round), for c # 0 and any signs
MulDivRound(a, b, c) ==
  CHOOSE q \in
    {RoundQuotient(m, x, y, z) :
       <<m, x, y, z>> \in {<<MulDivMod(Abs(u), Abs(v), Abs(w)), u, v, w>> :
                             <<u, v, w>> \in {<<a, b, c>>}}} :
    TRUE

\* from m = <<q, r>> of |a| * b over c, floor(a * b / c)
FloorQuotient(m, a) ==
  IF a >= 0 THEN m[1] ELSE -(m[1]) - (IF m[2] > 0 THEN 1 ELSE 0)

\* floor(a * b / c) for b >= 0, c > 0 and any sign of a
MulDivFloor(a, b, c) ==
  CHOOSE q \in
    {FloorQuotient(m, x) :
       <<m, x>> \in {<<MulDivMod(Abs(u), v, w), u>> : <<u, v, w>> \in {<<a, b, c>>}}} :
    TRUE

(***************************************************************************)
(* JavaScript values                                                       *)
(***************************************************************************)
Num(n) == [t |-> "num", v |-> n]
NaN == [t |-> "nan", v |-> 0]
PosInfinity == [t |-> "inf", v |-> 0]
NegInfinity == [t |-> "ninf", v |-> 0]
NotANumber == [t |-> "str", v |-> 0]
\* no value at all: nothing was returned
NoValue == [t |-> "none", v |-> 0]

IsFiniteNum(x) == x.t = "num"

\* units of 1/Scale for the reals inside the formulas
Scale == 10000 * 10000

(***************************************************************************)
(* utils/mathUtils.js                                                      *)
(***************************************************************************)

\* roundToCents: Math.round(value * 100) / 100, 0 for NaN and non-numbers.
\* value is in units of 1/1000 (mills); the result is a multiple of 10.
\* Math.round rounds halves toward +Infinity: floor(x + 1/2).
RoundToCents(value) ==
  IF value.t \in {"str", "nan"} THEN Num(0)
  ELSE IF value.t \in {"inf", "ninf"} THEN value
  ELSE Num(((value.v + 5) \div 10) * 10)

\* the options of validateNumber and their defaults
\* (max defaults to Infinity, which no finite value exceeds)
DefaultOptions == [min |-> 0, allowZero |-> TRUE]

\* ValidateNumber without the isFinite test
ValidateNumberFiniteUnchecked(value, options) ==
  IF value.t \in {"str", "nan"}
  THEN [statusCode |-> 400, message |-> "must be a valid number"]
  ELSE IF ~options.allowZero /\ value.v = 0
       THEN [statusCode |-> 400, message |-> "cannot be zero"]
  ELSE IF value.t = "num" /\ value.v < options.min
       THEN [statusCode |-> 400, message |-> "cannot be less than min"]
  ELSE [statusCode |-> 0, message |-> "ok"]

\* validateNumber: "ok", or the AppError (statusCode 400) it throws
ValidateNumber(value, options) ==
  IF value.t # "num" THEN [statusCode |-> 400, message |-> "must be a valid number"]
  ELSE IF ~options.allowZero /\ value.v = 0
       THEN [statusCode |-> 400, message |-> "cannot be zero"]
  ELSE IF value.v < options.min
       THEN [statusCode |-> 400, message |-> "cannot be less than min"]
  ELSE [statusCode |-> 0, message |-> "ok"]

Throws(check) == check.statusCode # 0

(***************************************************************************)
(* services/mortgageService.js                                             *)
(***************************************************************************)
Ok(value) == [status |-> "ok", statusCode |-> 200, value |-> value]
Error(check) == [status |-> "error", statusCode |-> check.statusCode, value |-> NoValue]

\* the three validateNumber calls that open every service method:
\* the first that throws decides
ValidateInputs(loanAmount, interestRate, loanTerm) ==
  LET c1 == ValidateNumber(loanAmount, DefaultOptions)
      c2 == ValidateNumber(interestRate, DefaultOptions)
      c3 == ValidateNumber(loanTerm, DefaultOptions)
  IN  IF Throws(c1) THEN c1 ELSE IF Throws(c2) THEN c2 ELSE c3

\* from h = q^(n \div 2), q^n
SquareAndMultiply(h, q, n) ==
  LET h2 == MulDivRound(h, h, Scale)
  IN  IF n % 2 = 1 THEN MulDivRound(h2, q, Scale) ELSE h2

\* Math.pow(q, n) for a real q > 0 in units of 1/Scale and an integer n >= 0
RECURSIVE Pow(_, _)
Pow(q, n) ==
  IF q = Scale \/ n = 0 THEN Scale
  ELSE CHOOSE p \in {SquareAndMultiply(h, q, n) : h \in {Pow(q, n \div 2)}} : TRUE

\* annualRate / 100 / 12 in units of 1/Scale (annualRate in 1/1000 percent)
MonthlyRate(annualRate) == MulDivRound(annualRate, Scale, 1200000)

\* x / 0 in IEEE arithmetic, for a finite x >= 0
DivByZero(x) == IF x = 0 THEN NaN ELSE PosInfinity

\* PrincipalAndInterest without the test for a zero rate: the annuity formula
\* divides 0 by 0 at rate 0
PrincipalAndInterestNoZeroRate(loanAmount, annualRate, termYears) ==
  LET monthlyRate == MonthlyRate(annualRate)
      pow   == Pow(Scale + monthlyRate, termYears * 12)
      mrPow == MulDivRound(monthlyRate, pow, Scale)
  IN  IF pow = Scale
      THEN RoundToCents(DivByZero(MulDivFloor(loanAmount, mrPow, Scale)))
      ELSE RoundToCents(Num(MulDivFloor(loanAmount, mrPow, pow - Scale)))

\* calculatePrincipalAndInterest, for validated arguments (plain integers)
PrincipalAndInterest(loanAmount, annualRate, termYears) ==
  LET numPayments == termYears * 12
  IN  IF annualRate = 0
      THEN IF numPayments = 0
           THEN RoundToCents(DivByZero(loanAmount))
           ELSE RoundToCents(Num(MulDivFloor(loanAmount, 1, numPayments)))
      ELSE LET monthlyRate == MonthlyRate(annualRate)
               pow   == Pow(Scale + monthlyRate, numPayments)
               mrPow == MulDivRound(monthlyRate, pow, Scale)
           IN  IF pow = Scale
               THEN RoundToCents(DivByZero(loanAmount))
               ELSE RoundToCents(Num(MulDivFloor(loanAmount, mrPow, pow - Scale)))

CalculatePrincipalAndInterest(loanAmount, annualRate, termYears) ==
  LET check == ValidateInputs(loanAmount, annualRate, termYears)
  IN  IF Throws(check) THEN Error(check)
      ELSE Ok(PrincipalAndInterest(loanAmount.v, annualRate.v, termYears.v))

\* Entry with the principal alone as paymentAmount
EntryPaysPrincipalOnly(paymentNumber, principalPayment, interestPayment, balance, loanAmount, interestSoFar) ==
  [paymentNumber       |-> paymentNumber,
   paymentAmount       |-> RoundToCents(Num(principalPayment)).v,
   principalPayment    |-> principalPayment,
   interestPayment     |-> interestPayment,
   remainingBalance    |-> balance,
   cumulativePrincipal |-> RoundToCents(Num(loanAmount - balance)).v,
   cumulativeInterest  |-> interestSoFar + interestPayment]

\* one row of the schedule (amounts in mills)
Entry(paymentNumber, principalPayment, interestPayment, balance, loanAmount, interestSoFar) ==
  [paymentNumber       |-> paymentNumber,
   paymentAmount       |-> RoundToCents(Num(principalPayment + interestPayment)).v,
   principalPayment    |-> principalPayment,
   interestPayment     |-> interestPayment,
   remainingBalance    |-> balance,
   cumulativePrincipal |-> RoundToCents(Num(loanAmount - balance)).v,
   cumulativeInterest  |-> interestSoFar + interestPayment]

\* PrincipalPayment without the final-period adjustment
PrincipalPaymentNoFinal(monthlyPayment, interestPayment, balance, paymentNumber, numPayments) ==
  IF monthlyPayment.t = "inf" THEN balance
  ELSE LET principalPayment == RoundToCents(Num(monthlyPayment.v - interestPayment)).v
       IN  IF principalPayment > balance THEN balance ELSE principalPayment

\* PrincipalPayment with the whole payment taken as principal
PrincipalPaymentIgnoresInterest(monthlyPayment, interestPayment, balance, paymentNumber, numPayments) ==
  IF monthlyPayment.t = "inf" THEN balance
  ELSE LET principalPayment == RoundToCents(Num(monthlyPayment.v)).v
       IN  IF paymentNumber = numPayments \/ principalPayment > balance
           THEN balance
           ELSE principalPayment

\* the principal portion of one period: roundToCents(monthlyPayment -
\* interestPayment), replaced by the balance in the final period or when it
\* would overshoot the balance (an infinite payment always overshoots)
PrincipalPayment(monthlyPayment, interestPayment, balance, paymentNumber, numPayments) ==
  IF monthlyPayment.t = "inf" THEN balance
  ELSE LET principalPayment == RoundToCents(Num(monthlyPayment.v - interestPayment)).v
       IN  IF paymentNumber = numPayments \/ principalPayment > balance
           THEN balance
           ELSE principalPayment

\* ScheduleEntry with the principal added to the balance instead of subtracted
ScheduleEntryAddsPrincipal(loanAmount, interestRate, monthlyPayment, numPayments, paymentNumber, balance, schedule) ==
  CHOOSE entry \in
    {Entry(paymentNumber, principalPayment, interestPayment,
           RoundToCents(Num(balance + principalPayment)).v, loanAmount,
           IF schedule = <<>> THEN 0 ELSE schedule[Len(schedule)].cumulativeInterest) :
       <<interestPayment, principalPayment>> \in
         {<<ip, PrincipalPayment(monthlyPayment, ip, balance, paymentNumber, numPayments)>> :
            ip \in {RoundToCents(Num(MulDivFloor(balance, interestRate, 1200000))).v}}} :
    TRUE

\* ScheduleEntry with the interest charged on loanAmount in every period
ScheduleEntryInterestOnLoanAmount(loanAmount, interestRate, monthlyPayment, numPayments, paymentNumber, balance, schedule) ==
  CHOOSE entry \in
    {Entry(paymentNumber, principalPayment, interestPayment,
           RoundToCents(Num(balance - principalPayment)).v, loanAmount,
           IF schedule = <<>> THEN 0 ELSE schedule[Len(schedule)].cumulativeInterest) :
       <<interestPayment, principalPayment>> \in
         {<<ip, PrincipalPayment(monthlyPayment, ip, balance, paymentNumber, numPayments)>> :
            ip \in {RoundToCents(Num(MulDivFloor(loanAmount, interestRate, 1200000))).v}}} :
    TRUE

\* ScheduleEntry with cumulativeInterest holding the period's interest alone
ScheduleEntryInterestNotAccumulated(loanAmount, interestRate, monthlyPayment, numPayments, paymentNumber, balance, schedule) ==
  CHOOSE entry \in
    {Entry(paymentNumber, principalPayment, interestPayment,
           RoundToCents(Num(balance - principalPayment)).v, loanAmount, 0) :
       <<interestPayment, principalPayment>> \in
         {<<ip, PrincipalPayment(monthlyPayment, ip, balance, paymentNumber, numPayments)>> :
            ip \in {RoundToCents(Num(MulDivFloor(balance, interestRate, 1200000))).v}}} :
    TRUE

\* one pass of the body of the for loop of generateAmortizationSchedule:
\* the entry it pushes, computed from the balance before the payment
ScheduleEntry(loanAmount, interestRate, monthlyPayment, numPayments, paymentNumber, balance, schedule) ==
  CHOOSE entry \in
    {Entry(paymentNumber, principalPayment, interestPayment,
           RoundToCents(Num(balance - principalPayment)).v, loanAmount,
           IF schedule = <<>> THEN 0 ELSE schedule[Len(schedule)].cumulativeInterest) :
       <<interestPayment, principalPayment>> \in
         {<<ip, PrincipalPayment(monthlyPayment, ip, balance, paymentNumber, numPayments)>> :
            ip \in {RoundToCents(Num(MulDivFloor(balance, interestRate, 1200000))).v}}} :
    TRUE

(***************************************************************************)
(* calculateAPR.  Inside the Newton-Raphson loop apr is in units of        *)
(* 1/AprUnit percent, the present value and the error in units of          *)
(* 1/1000 mill (micro-dollars).                                            *)
(***************************************************************************)
AprUnit == 1000 * 1000
\* const tolerance = 0.0001 (dollars), in micro-dollars
Tolerance == 100
\* const maxIterations = 100
MaxIterations == 100

\* apr / 100 / 12 in units of 1/Scale
MonthlyAPR(apr) == MulDivRound(apr, Scale \div AprUnit, 1200)

\* Math.pow(1 + x, -n) for a real x > -1 in units of 1/Scale
PowNeg(x, n) == MulDivRound(Scale, Scale, Pow(Scale + x, n))

\* pv = monthlyPayment * (1 - Math.pow(1 + monthlyAPR, -numPayments)) / monthlyAPR
\* and error = pv - adjustedLoanAmount; 0 / 0 is NaN at monthlyAPR = 0;
\* at apr = Infinity the power is 0 and pv = monthlyPayment / Infinity = 0
PresentValueError(x, monthlyPayment, adjustedLoanAmount, numPayments) ==
  IF x = 0 THEN NaN
  ELSE Num(MulDivRound(monthlyPayment * 1000, Scale - PowNeg(x, numPayments), x)
           - adjustedLoanAmount * 1000)

NewtonError(apr, monthlyPayment, adjustedLoanAmount, numPayments) ==
  IF apr.t = "nan" THEN NaN
  ELSE IF apr.t = "inf" THEN Num(-(adjustedLoanAmount * 1000))
  ELSE CHOOSE error \in {PresentValueError(x, monthlyPayment, adjustedLoanAmount,
                                           numPayments) : x \in {MonthlyAPR(apr.v)}} :
         TRUE

\* if (Math.abs(error) < tolerance) break;   (false for NaN)
Converged(error) == error.t = "num" /\ Abs(error.v) < Tolerance

\* (1 - (1+x)^-n) / x^2  -  n * (1+x)^(-n-1) / x, in units of 1/10000;
\* the derivative is -monthlyPayment * this / 1200
DerivativeTermOf(powNeg, x, numPayments) ==
  LET u  == MulDivRound(Scale - powNeg, 10000000, x)
      t1 == MulDivRound(u, 100000, x)
      t2 == MulDivRound(MulDivRound(powNeg, Scale, Scale + x), numPayments * 10000, x)
  IN  t1 - t2

DerivativeTerm(x, numPayments) ==
  CHOOSE term \in {DerivativeTermOf(powNeg, x, numPayments) :
                     powNeg \in {PowNeg(x, numPayments)}} :
    TRUE

\* apr - error / derivative for a finite apr, term the DerivativeTerm at it;
\* a zero derivative divides to an infinity of the sign of the error
UpdateBy(term, apr, error, monthlyPayment) ==
  IF monthlyPayment = 0 \/ term = 0
  THEN IF error.v > 0 THEN PosInfinity ELSE NegInfinity
  ELSE Num(apr.v + MulDivRound(MulDivRound(error.v, AprUnit, term),
                               12000, monthlyPayment))

\* apr = apr - error / derivative, for an error that did not converge
NewtonUpdate(apr, error, monthlyPayment, adjustedLoanAmount, numPayments) ==
  IF apr.t = "nan" \/ error.t = "nan" THEN NaN
  ELSE IF apr.t = "inf"
       \* derivative = -monthlyPayment * (0 - 0) / 1200 = -0, error / -0 is
       \* +Infinity for error < 0 and -Infinity for error > 0
       THEN IF error.v < 0 THEN NaN ELSE PosInfinity
  ELSE CHOOSE next \in
         {UpdateBy(term, apr, error, monthlyPayment) :
            term \in {DerivativeTerm(x, numPayments) : x \in {MonthlyAPR(apr.v)}}} :
         TRUE

\* roundToCents(apr), back in units of 1/1000 percent
RoundAprToCents(apr) ==
  IF apr.t = "num" THEN RoundToCents(Num(apr.v \div (AprUnit \div 1000)))
  ELSE RoundToCents(apr)

\* Cheaper with <= in place of <
CheaperOrEqual(current, best) == current.totals.totalCost <= best.totals.totalCost

\* currentCost < bestCost
Cheaper(current, best) == current.totals.totalCost < best.totals.totalCost

\* findBestLoan: comparisons.reduce(...) without an initial value starts
\* from the first element and visits the others in index order
RECURSIVE ReduceBest(_, _, _)
ReduceBest(comparisons, index, best) ==
  IF index > Len(comparisons) THEN best
  ELSE LET current == comparisons[index]
       IN  ReduceBest(comparisons, index + 1,
                      IF Cheaper(current, best) THEN current ELSE best)

\* FindBestLoan returning the first comparison
FindBestLoanFirst(comparisons) == comparisons[1]

\* findBestLoan: reduce without an initial value starts from comparisons[0]
FindBestLoan(comparisons) == ReduceBest(comparisons, 2, comparisons[1])

\* a loan as getLoanSummary takes it: the three validated numbers and the
\* optional amounts, a missing one being 0 (propertyTax || 0, fees || 0)
Loan(loanAmount, interestRate, loanTerm, costs, fees) ==
  [loanAmount |-> loanAmount, interestRate |-> interestRate, loanTerm |-> loanTerm,
   propertyTax |-> costs.propertyTax, insurance |-> costs.insurance,
   pmi |-> costs.pmi, hoaFees |-> costs.hoaFees, fees |-> fees]

\* MonthlyPayment with the recurring costs reported inside principalAndInterest
MonthlyPaymentRollsCostsIn(principalAndInterest, loan) ==
  LET monthlyPropertyTax == RoundToCents(Num(loan.propertyTax \div 12)).v
      monthlyInsurance   == RoundToCents(Num(loan.insurance \div 12)).v
      monthlyPMI         == RoundToCents(Num(loan.pmi)).v
      monthlyHOA         == RoundToCents(Num(loan.hoaFees)).v
      totalMonthlyPayment == principalAndInterest + monthlyPropertyTax
                             + monthlyInsurance + monthlyPMI + monthlyHOA
  IN  [principalAndInterest |-> RoundToCents(Num(totalMonthlyPayment)).v,
       propertyTax          |-> monthlyPropertyTax,
       insurance            |-> monthlyInsurance,
       pmi                  |-> monthlyPMI,
       hoaFees              |-> monthlyHOA,
       totalMonthlyPayment  |-> RoundToCents(Num(totalMonthlyPayment)).v]

\* the object calculateMonthlyPayment returns, given the payment of
\* calculatePrincipalAndInterest (amounts in mills; breakdown repeats the
\* same amounts)
MonthlyPayment(principalAndInterest, loan) ==
  LET monthlyPropertyTax == RoundToCents(Num(loan.propertyTax \div 12)).v
      monthlyInsurance   == RoundToCents(Num(loan.insurance \div 12)).v
      monthlyPMI         == RoundToCents(Num(loan.pmi)).v
      monthlyHOA         == RoundToCents(Num(loan.hoaFees)).v
      totalMonthlyPayment == principalAndInterest + monthlyPropertyTax
                             + monthlyInsurance + monthlyPMI + monthlyHOA
  IN  [principalAndInterest |-> principalAndInterest,
       propertyTax          |-> monthlyPropertyTax,
       insurance            |-> monthlyInsurance,
       pmi                  |-> monthlyPMI,
       hoaFees              |-> monthlyHOA,
       totalMonthlyPayment  |-> RoundToCents(Num(totalMonthlyPayment)).v]

\* calculateMonthlyPayment: calculatePrincipalAndInterest throws or its
\* payment is completed with the monthly costs
CalculateMonthlyPayment(loan) ==
  LET payment == CalculatePrincipalAndInterest(loan.loanAmount, loan.interestRate,
                                               loan.loanTerm)
  IN  IF payment.status = "error" THEN payment
      ELSE Ok(MonthlyPayment(payment.value.v, loan))

\* schedule.reduce((sum, payment) => sum + payment.interestPayment, 0)
RECURSIVE TotalInterest(_, _)
TotalInterest(entries, n) ==
  IF n = 0 THEN 0 ELSE TotalInterest(entries, n - 1) + entries[n].interestPayment

\* schedule.reduce((sum, p) => sum + p.paymentAmount, 0)
RECURSIVE TotalPrincipalAndInterestPaid(_, _)
TotalPrincipalAndInterestPaid(entries, n) ==
  IF n = 0 THEN 0
  ELSE TotalPrincipalAndInterestPaid(entries, n - 1) + entries[n].paymentAmount

\* Totals with the first of the two totalPayments keys kept
TotalsFirstKeyWins(loan, monthlyPayment, totalInterest, totalPrincipalAndInterestPaid) ==
  [totalPayments  |-> RoundToCents(Num(monthlyPayment.totalMonthlyPayment
                                        * loan.loanTerm.v * 12)).v,
   totalInterest  |-> RoundToCents(Num(totalInterest)).v,
   totalPrincipal |-> loan.loanAmount.v,
   totalCost      |-> RoundToCents(Num(loan.loanAmount.v + totalInterest
                                       + loan.fees)).v]

\* the totals of getLoanSummary: the object literal has the key
\* totalPayments twice, and the later one replaces the earlier
Totals(loan, monthlyPayment, totalInterest, totalPrincipalAndInterestPaid) ==
  [[totalPayments  |-> RoundToCents(Num(monthlyPayment.totalMonthlyPayment
                                         * loan.loanTerm.v * 12)).v,
    totalInterest  |-> RoundToCents(Num(totalInterest)).v,
    totalPrincipal |-> loan.loanAmount.v,
    totalCost      |-> RoundToCents(Num(loan.loanAmount.v + totalInterest
                                        + loan.fees)).v]
   EXCEPT !.totalPayments = RoundToCents(Num(totalPrincipalAndInterestPaid)).v]

\* roundToCents((totalInterest / loanAmount) * 100), in 1/1000 of a percent
InterestPercentage(totalInterest, loanAmount) ==
  IF loanAmount = 0 THEN 0
  ELSE RoundToCents(Num(MulDivFloor(totalInterest, 100000, loanAmount))).v

\* a calendar date
Date(year, month, day) == [year |-> year, month |-> month, day |-> day]
IsLeapYear(year) == year % 4 = 0 /\ (year % 100 # 0 \/ year % 400 = 0)

\* Date.prototype.setFullYear: a 29 February that the new year does not have
\* becomes 1 March
SetFullYear(date, year) ==
  IF date.month = 2 /\ date.day = 29 /\ ~IsLeapYear(year)
  THEN Date(year, 3, 1)
  ELSE Date(year, date.month, date.day)

\* calculatePayoffDate, today being what new Date() returned
CalculatePayoffDate(today, loanTermYears) ==
  SetFullYear(today, today.year + loanTermYears)

\* the object getLoanSummary returns
LoanSummary(loan, monthlyPayment, totalInterest, totalPrincipalAndInterestPaid, first, apr, today) ==
  [loanDetails |-> [loanAmount |-> loan.loanAmount.v,
                    interestRate |-> loan.interestRate.v,
                    apr |-> apr,
                    loanTerm |-> loan.loanTerm.v,
                    fees |-> loan.fees],
   monthlyPayment |-> monthlyPayment,
   totals |-> Totals(loan, monthlyPayment, totalInterest,
                     totalPrincipalAndInterestPaid),
   percentages |-> [interestPercentage |->
                      InterestPercentage(totalInterest, loan.loanAmount.v)],
   payoffDate |-> CalculatePayoffDate(today, loan.loanTerm.v),
   firstPaymentBreakdown |-> first]

(***************************************************************************)
(* Request validation (middleware/validation.js) and the controllers       *)
(***************************************************************************)
\* values of a request body that are not amounts in mills: a field that is
\* absent, a number of whole dollars too large for mills, a number that is
\* not whole (given by its floor)
Missing == NoValue
Big(dollars) == [t |-> "big", v |-> dollars]
Fraction(floor) == [t |-> "frac", v |-> floor]

\* the limits of mortgageSchema: dollars, 1/1000 percent, years
MaxLoanAmount == 100000000
MaxInterestRate == 50000
MinLoanTerm == 1
MaxLoanTerm == 50

\* loanAmount: Joi.number().positive().max(100000000).required()
LoanAmountValid(value) ==
  \/ value.t = "num" /\ value.v > 0
  \/ value.t = "big" /\ value.v > 0 /\ value.v <= MaxLoanAmount

\* interestRate: Joi.number().min(0).max(50).precision(3).required()
InterestRateValid(value) ==
  value.t = "num" /\ value.v >= 0 /\ value.v <= MaxInterestRate

\* loanTerm: Joi.number().integer().min(1).max(50).required()
LoanTermValid(value) ==
  value.t = "num" /\ value.v >= MinLoanTerm /\ value.v <= MaxLoanTerm

\* an optional amount in mills: Joi.number().min(0).max(max).optional(),
\* max in dollars
OptionalValid(amount, max) == amount >= 0 /\ amount <= max * 1000

\* mortgageSchema.validate(body) reports no error
MortgageSchemaValid(body) ==
  /\ LoanAmountValid(body.loanAmount)
  /\ InterestRateValid(body.interestRate)
  /\ LoanTermValid(body.loanTerm)
  /\ OptionalValid(body.propertyTax, 1000000)
  /\ OptionalValid(body.insurance, 100000)
  /\ OptionalValid(body.pmi, 10000)
  /\ OptionalValid(body.hoaFees, 10000)
  /\ OptionalValid(body.fees, 100000)

\* the validation rules as the README documents them: a loan amount of $1
\* to $100,000,000, a rate of 0% to 50%, a term of 1 to 50 whole years
InDocumentedRange(body) ==
  /\ \/ body.loanAmount.t = "num" /\ body.loanAmount.v >= 1000
     \/ body.loanAmount.t = "big" /\ body.loanAmount.v >= 1
                                  /\ body.loanAmount.v <= 100000000
  /\ body.interestRate.t = "num" /\ body.interestRate.v >= 0
                                 /\ body.interestRate.v <= 50000
  /\ body.loanTerm.t = "num" /\ body.loanTerm.v >= 1 /\ body.loanTerm.v <= 50

\* loanComparisonSchema: Joi.array().items(mortgageSchema).min(2).max(10)
MinComparedLoans == 2
MaxComparedLoans == 10
LoanComparisonSchemaValid(loans) ==
  /\ loans.isArray
  /\ Len(loans.items) >= MinComparedLoans
  /\ Len(loans.items) <= MaxComparedLoans
  /\ \A n \in 1..Len(loans.items) : MortgageSchemaValid(loans.items[n])

\* req.body.loans: an array of loans, or something else
Loans(items) == [isArray |-> TRUE, items |-> items]
NotAnArray == [isArray |-> FALSE, items |-> <<>>]

\* TooFewLoans with one loan taken as enough
TooFewLoansBelowOne(loans) == ~loans.isArray \/ Len(loans.items) < 1

\* !Array.isArray(loans) || loans.length < 2
TooFewLoans(loans) == ~loans.isArray \/ Len(loans.items) < 2

\* an element of comparisons, { scenario: index + 1, ...summary }: of the
\* summary, the totals that findBestLoan reads are kept
ScenarioOf(index, output) == [scenario |-> index, totals |-> output.totals]

(***************************************************************************)
(* validateApiKey (authentication middleware)                              *)
(***************************************************************************)
\* a header, a query parameter or an environment variable: absent, or a
\* string
Absent == [present |-> FALSE, value |-> ""]
String(value) == [present |-> TRUE, value |-> value]

\* JavaScript truthiness of such a value: undefined and '' are falsy
Truthy(string) == string.present /\ string.value # ""

\* (process.env.API_KEYS || '').split(','): the pieces between the commas,
\* a single empty piece when the variable is unset or empty
Split(pieces) == IF pieces = <<>> THEN <<"">> ELSE pieces

\* ValidApiKeys without .filter(Boolean)
ValidApiKeysUnfiltered(pieces) == Split(pieces)

\* validApiKeys: the pieces that are not empty
ValidApiKeys(pieces) == SelectSeq(Split(pieces), LAMBDA key : key # "")

\* const apiKey = req.headers['x-api-key'] || req.query.apiKey
ApiKeyOf(header, query) == IF Truthy(header) THEN header ELSE query

\* validApiKeys.includes(apiKey)
Includes(keys, apiKey) ==
  apiKey.present /\ \E n \in 1..Len(keys) : keys[n] = apiKey.value

\* what validateApiKey does with a request: "next" for next(), or the code
\* of the 401 response it sends
ValidateApiKey(nodeEnv, pieces, header, query) ==
  IF nodeEnv = String("development") THEN "next"
  ELSE IF Len(ValidApiKeys(pieces)) = 0 THEN "next"
  ELSE IF ~Truthy(ApiKeyOf(header, query)) THEN "MISSING_API_KEY"
  ELSE IF ~Includes(ValidApiKeys(pieces), ApiKeyOf(header, query))
       THEN "INVALID_API_KEY"
  ELSE "next"

(***************************************************************************)
(* useMortgage (frontend hook)                                             *)
(***************************************************************************)
\* the values of results and amortizationSchedule: null, [], or the data of
\* the response to a request of one call of calculateMortgage; of an
\* amortization response, the length of its schedule
Null == [route |-> "null", call |-> 0, length |-> 0]
EmptyArray == [route |-> "[]", call |-> 0, length |-> 0]
Response(route, call, length) == [route |-> route, call |-> call, length |-> length]

\* the four useState of useMortgage
InitialHook ==
  [isLoading |-> FALSE, error |-> Absent, results |-> Null,
   amortizationSchedule |-> EmptyArray]

\* a call of calculateMortgage that has not been made
NoCall ==
  [stage |-> "none", mortgageResults |-> Null, schedule |-> Null,
   thrown |-> Absent, alone |-> FALSE]

\* the call is awaiting one of its two requests
InFlight(call) == call.stage \in {"calculate", "amortization"}

\* setIsLoading(true); setError(null)
Begin(state) == [state EXCEPT !.isLoading = TRUE, !.error = Absent]

\* Catch without setResults(null)
CatchKeepsResults(state, message) ==
  [state EXCEPT !.error = String(message), !.amortizationSchedule = EmptyArray]

\* the catch block: setError(err.message); setResults(null);
\* setAmortizationSchedule([])
Catch(state, message) ==
  [state EXCEPT !.error = String(message), !.results = Null,
                !.amortizationSchedule = EmptyArray]

\* the finally block: setIsLoading(false)
Finally(state) == [state EXCEPT !.isLoading = FALSE]

(***************************************************************************)
(* AmortizationTable (frontend component)                                  *)
(***************************************************************************)
itemsPerPage == 12

\* Math.ceil(n / d)
Ceil(n, d) == (n + d - 1) \div d

\* transformedSchedule.length: the entries of schedule.schedule, none when
\* the prop has no schedule
TransformedLength(prop) ==
  IF prop.route = "/amortization" THEN prop.length ELSE 0

\* yearlySchedule.length: one entry per year Math.ceil(paymentNumber / 12)
YearlyLength(prop) == Ceil(TransformedLength(prop), 12)

\* displayData.length
DisplayLength(viewMode, prop) ==
  IF viewMode = "yearly" THEN YearlyLength(prop) ELSE TransformedLength(prop)

\* totalPages
TotalPages(viewMode, prop) == Ceil(DisplayLength(viewMode, prop), itemsPerPage)

\* the two useState of AmortizationTable, and whether it is mounted
Unmounted == [mounted |-> FALSE, viewMode |-> "yearly", currentPage |-> 1]
Mounted == [mounted |-> TRUE, viewMode |-> "yearly", currentPage |-> 1]

\* App renders AmortizationTable while results is truthy; a component that
\* stays mounted keeps its state
Render(state, component) ==
  IF state.results = Null THEN Unmounted
  ELSE IF component.mounted THEN component
  ELSE Mounted

(***************************************************************************)
(* Inputs of the model                                                     *)
(***************************************************************************)
\* longest loan term, in years
MaxTerm == 2
\* most comparisons handed to findBestLoan
MaxComparisons == 3
\* largest totalCost of a comparison
MaxCost == 2

\* values that validateNumber rejects
InvalidValues == {Num(-1000), NaN, PosInfinity, NegInfinity, NotANumber}

\* loan amounts in mills: zero, less than a cent, not a whole number of
\* cents, and whole cents up to $20
LoanAmounts == {0, 4, 6, 130, 550, 1006, 1100, 3000, 10000, 20000}
\* interest rates in 1/1000 percent, within the 0 to 50 percent of the API
InterestRates == {0, 4500, 6125, 12000, 48000}
LoanTerms == 0..MaxTerm
\* one-time fees in mills
Fees == {0, 10, 100}

LoanAmountValues == {Num(n) : n \in LoanAmounts} \cup InvalidValues
InterestRateValues == {Num(n) : n \in InterestRates} \cup InvalidValues
LoanTermValues == {Num(n) : n \in LoanTerms} \cup InvalidValues

\* the comparisons of compareLoans: scenario is index + 1
Comparison(scenario, totalCost) ==
  [scenario |-> scenario, totals |-> [totalCost |-> totalCost]]
ComparisonLists ==
  UNION {{[i \in 1..n |-> Comparison(i, costs[i])] : costs \in [1..n -> 0..MaxCost]}
         : n \in 1..MaxComparisons}

\* the inputs on which the Newton-Raphson iteration of calculateAPR is
\* modelled: a term of at least a year, fees of at most a tenth of the
\* loan and a loan of at least half a dollar (below that the iterates leave
\* the range of the fixed-point numbers)
InNewtonRange(loanAmount, loanTerm, fees) ==
  loanTerm >= 1 /\ fees * 10 <= loanAmount /\ loanAmount >= 500

\* the optional monthly and yearly costs of a loan, in mills
NoCosts == [propertyTax |-> 0, insurance |-> 0, pmi |-> 0, hoaFees |-> 0]
RecurringCosts == {NoCosts, [propertyTax |-> 1000, insurance |-> 500, pmi |-> 15, hoaFees |-> 20]}
SummaryFees == {0, 10}

\* the fees of a summary: none, or a fee on a loan with interest (at rate 0
\* a fee sends calculateAPR through all its iterations, which
\* CallCalculateAPR covers)
SummaryFeesAt(interestRate) == IF interestRate.v = 0 THEN {0} ELSE SummaryFees

\* the loans getLoanSummary is called with: one that validateNumber
\* rejects, and loans with and without interest, costs and fees
SummaryLoanAmounts == {NaN, Num(550), Num(3000)}
SummaryInterestRates == {Num(0), Num(6125)}
SummaryLoans ==
  UNION {{Loan(loanAmount, interestRate, Num(loanTerm), costs, fees) :
            loanAmount \in SummaryLoanAmounts, loanTerm \in 1..MaxTerm,
            costs \in RecurringCosts, fees \in SummaryFeesAt(interestRate)}
         : interestRate \in SummaryInterestRates}

\* the calls a client repeats: those on the amounts and rates of
\* SummaryLoans
Repeated(loanAmount, interestRate, fees) ==
  /\ loanAmount \in SummaryLoanAmounts
  /\ interestRate \in SummaryInterestRates
  /\ fees \in SummaryFeesAt(interestRate)

\* the request bodies posted to /calculate, /amortization, /apr and /summary
BodyLoanAmounts == {Missing, NotANumber, Num(0), Num(550), Num(3000), Big(MaxLoanAmount + 1)}
BodyInterestRates == {Num(-1000), Num(0), Num(6125), Num(MaxInterestRate + 10000)}
BodyLoanTerms == {Num(0), Num(1), Fraction(1), Num(MaxLoanTerm + 1)}
BodyCosts == RecurringCosts \cup {[NoCosts EXCEPT !.pmi = -15]}
Bodies ==
  {Loan(loanAmount, interestRate, loanTerm, costs, fees) :
     loanAmount \in BodyLoanAmounts, interestRate \in BodyInterestRates,
     loanTerm \in BodyLoanTerms, costs \in BodyCosts, fees \in SummaryFees}

\* the loans of a request to /compare: one that getLoanSummary rejects, an
\* interest-free one and one with interest and fees
MaxLoans == 3
ComparedLoans ==
  {Loan(NaN, Num(0), Num(1), NoCosts, 0),
   Loan(Num(550), Num(0), Num(1), NoCosts, 0),
   Loan(Num(3000), Num(6125), Num(1), NoCosts, 10)}
ComparedBodies ==
  {NotAnArray} \cup
  UNION {{Loans(items) : items \in [1..n -> ComparedLoans]} : n \in 0..MaxLoans}

\* the environments, key lists and supplied keys of validateApiKey
NodeEnvs == {Absent, String("development"), String("production")}
ApiKeyPieces == {<<>>, <<"", "">>, <<"k1">>, <<"k1", "", "k2">>}
SuppliedKeys == {Absent, String(""), String("k1"), String("k2"), String("k3")}

\* the calls of calculateMortgage
MaxCalls == 2

\* the lengths of the schedule in a response to an amortization request
ScheduleLengths == {0, 12, 156}

\* the days new Date() may return
Dates == {Date(2024, 2, 29), Date(2025, 6, 15)}

(***************************************************************************)
(* State                                                                   *)
(***************************************************************************)
VARIABLES
  pc,           \* "idle", "done", or inside a loop: "schedule" (the loop of
                \* generateAmortizationSchedule), "newton" (of calculateAPR)
  method,       \* the service method that was called
  args,         \* its arguments
  computed,     \* TRUE once the call got past its validateNumber checks
  result,       \* what the call returned or threw
  schedule,     \* the schedule returned by generateAmortizationSchedule
  recommended,  \* the comparison returned by findBestLoan
  amort,        \* the locals of the loop of generateAmortizationSchedule
  newton,       \* the locals of the loop of calculateAPR
  summary,      \* the locals of getLoanSummary and the object it returned
  earlier,      \* what an earlier call of the same method was given and returned
  http,         \* the request being handled by the Express application
  hook,         \* the state of useMortgage: isLoading, error, results,
                \* amortizationSchedule
  calls,        \* the calls of calculateMortgage: where each one is, and its
                \* locals
  table         \* the state of AmortizationTable: viewMode, currentPage

vars == <<pc, method, args, computed, result, schedule, recommended, amort, newton,
          summary, earlier, http, hook, calls, table>>

\* the state of the backend, which the frontend leaves alone
backend == <<pc, method, args, computed, result, schedule, recommended, amort, newton,
             summary, earlier, http>>

\* the state of the frontend, which the backend leaves alone
frontend == <<hook, calls, table>>

\* what the service methods below getLoanSummary leave alone
outer == <<summary, earlier, http>>

NoArgs == [loanAmount |-> NoValue, interestRate |-> NoValue, loanTerm |-> NoValue,
           fees |-> 0, comparisons |-> <<>>]
NoResult == [status |-> "none", statusCode |-> 0, value |-> NoValue]
NoComparison == Comparison(0, 0)
NoAmort == [monthlyPayment |-> NoValue, numPayments |-> 0, paymentNumber |-> 0,
            balance |-> 0]
NoNewton == [apr |-> NoValue, i |-> 0, monthlyPayment |-> 0,
             adjustedLoanAmount |-> 0, numPayments |-> 0]
NoLoan == Loan(NoValue, NoValue, NoValue, NoCosts, 0)
NoSummary == [stage |-> "none", loan |-> NoLoan, monthlyPayment |-> NoValue,
              totalInterest |-> 0, totalPrincipalAndInterestPaid |-> 0,
              first |-> NoValue, output |-> NoValue]
NoEarlier == [method |-> "none"]
NoRequest == [stage |-> "none", route |-> "none", body |-> NoLoan, nextCalls |-> <<>>,
              controllerRuns |-> 0, response |-> 0, comparisons |-> <<>>, index |-> 0]

Init ==
  /\ pc = "idle"
  /\ method = "none"
  /\ args = NoArgs
  /\ computed = FALSE
  /\ result = NoResult
  /\ schedule = <<>>
  /\ recommended = NoComparison
  /\ amort = NoAmort
  /\ newton = NoNewton
  /\ summary = NoSummary
  /\ earlier = NoEarlier
  /\ http = NoRequest
  /\ hook = InitialHook
  /\ calls = [call \in 1..MaxCalls |-> NoCall]
  /\ table = Unmounted

\* no call and no request is in progress: a client may call the service,
\* or a request may arrive
Idle == pc = "idle" /\ http = NoRequest

LoanArgs(loanAmount, interestRate, loanTerm, fees) ==
  [loanAmount |-> loanAmount, interestRate |-> interestRate, loanTerm |-> loanTerm,
   fees |-> fees, comparisons |-> <<>>]

\* mortgageService.calculatePrincipalAndInterest(loanAmount, annualRate, termYears)
CallCalculatePrincipalAndInterest ==
  \E loanAmount \in LoanAmountValues, annualRate \in InterestRateValues,
     termYears \in LoanTermValues :
    /\ Idle
    /\ UNCHANGED frontend
    /\ pc' = "done"
    /\ method' = "calculatePrincipalAndInterest"
    /\ args' = LoanArgs(loanAmount, annualRate, termYears, 0)
    /\ result' = CalculatePrincipalAndInterest(loanAmount, annualRate, termYears)
    /\ computed' = (result'.status = "ok")
    /\ UNCHANGED <<schedule, recommended, amort, newton>>
    /\ UNCHANGED outer

\* generateAmortizationSchedule({loanAmount, interestRate, loanTerm}), up to
\* the first test of the loop condition
GenerateAmortizationSchedule(loanAmount, interestRate, loanTerm) ==
  LET check == ValidateInputs(loanAmount, interestRate, loanTerm)
  IN  /\ method' = "generateAmortizationSchedule"
      /\ args' = LoanArgs(loanAmount, interestRate, loanTerm, 0)
      /\ computed' = ~Throws(check)
      /\ schedule' = <<>>
      /\ UNCHANGED <<recommended, newton>>
      /\ IF Throws(check)
         THEN pc' = "done" /\ result' = Error(check) /\ UNCHANGED amort
         ELSE /\ pc' = "schedule"
              /\ result' = NoResult
              /\ amort' = [monthlyPayment |-> PrincipalAndInterest(loanAmount.v,
                                                interestRate.v, loanTerm.v),
                           numPayments    |-> loanTerm.v * 12,
                           paymentNumber  |-> 1,
                           balance        |-> loanAmount.v]

\* mortgageService.generateAmortizationSchedule called by a client of the
\* service
CallGenerateAmortizationSchedule ==
  \E loanAmount \in LoanAmountValues, interestRate \in InterestRateValues,
     loanTerm \in LoanTermValues :
    /\ Idle
    /\ UNCHANGED frontend
    /\ GenerateAmortizationSchedule(loanAmount, interestRate, loanTerm)
    /\ UNCHANGED outer

\* ScheduleCondition with < in place of <=
ScheduleConditionExclusive(paymentNumber, numPayments) == paymentNumber < numPayments

\* for (let paymentNumber = 1; paymentNumber <= numPayments; paymentNumber++)
ScheduleCondition(paymentNumber, numPayments) == paymentNumber <= numPayments

\* ScheduleBreak with < in place of <=
ScheduleBreakStrict(balance) == balance < 0

\* ScheduleBreak with the comparison reversed
ScheduleBreakReversed(balance) == balance >= 0

\* if (balance <= 0) break;
ScheduleBreak(balance) == balance <= 0

\* one pass of the loop body; the break returns the schedule
ScheduleIteration ==
  /\ pc = "schedule"
  /\ UNCHANGED frontend
  /\ ScheduleCondition(amort.paymentNumber, amort.numPayments)
  /\ \E entry \in {ScheduleEntry(args.loanAmount.v, args.interestRate.v,
                                  amort.monthlyPayment, amort.numPayments,
                                  amort.paymentNumber, amort.balance, schedule)} :
       /\ schedule' = Append(schedule, entry)
       /\ IF ScheduleBreak(entry.remainingBalance)
          THEN /\ pc' = "done"
               /\ result' = Ok(NoValue)
               /\ amort' = [amort EXCEPT !.balance = entry.remainingBalance]
          ELSE /\ pc' = "schedule"
               /\ result' = result
               /\ amort' = [amort EXCEPT !.balance = entry.remainingBalance,
                                         !.paymentNumber = amort.paymentNumber + 1]
  /\ UNCHANGED <<method, args, computed, recommended, newton>>
  /\ UNCHANGED outer

\* the loop condition fails: return schedule
ReturnSchedule ==
  /\ pc = "schedule"
  /\ UNCHANGED frontend
  /\ ~ScheduleCondition(amort.paymentNumber, amort.numPayments)
  /\ pc' = "done"
  /\ result' = Ok(NoValue)
  /\ UNCHANGED <<method, args, computed, schedule, recommended, amort, newton>>
  /\ UNCHANGED outer

\* LoopCondition with <= in place of <
LoopConditionOffByOne(i) == i <= MaxIterations

\* for (let i = 0; i < maxIterations; i++)
LoopCondition(i) == i < MaxIterations

\* the error of the current estimate, computed at the top of the loop body
CurrentError ==
  NewtonError(newton.apr, newton.monthlyPayment, newton.adjustedLoanAmount,
              newton.numPayments)

\* calculateAPR({loanAmount, interestRate, loanTerm, fees}), up to the first
\* test of the loop condition
CalculateAPR(loanAmount, interestRate, loanTerm, fees) ==
  LET check == ValidateInputs(loanAmount, interestRate, loanTerm)
  IN  /\ (~Throws(check) /\ fees # 0) => InNewtonRange(loanAmount.v, loanTerm.v, fees)
      /\ method' = "calculateAPR"
      /\ args' = LoanArgs(loanAmount, interestRate, loanTerm, fees)
      /\ computed' = ~Throws(check)
      /\ UNCHANGED <<schedule, recommended, amort>>
      /\ IF Throws(check)
         THEN pc' = "done" /\ result' = Error(check) /\ UNCHANGED newton
         ELSE IF fees = 0
         THEN /\ pc' = "done"
              /\ result' = Ok(RoundToCents(interestRate))
              /\ UNCHANGED newton
         ELSE /\ pc' = "newton"
              /\ result' = NoResult
              /\ newton' =
                   [apr                |-> Num(interestRate.v * (AprUnit \div 1000)),
                    i                  |-> 0,
                    monthlyPayment     |-> PrincipalAndInterest(loanAmount.v,
                                             interestRate.v, loanTerm.v).v,
                    adjustedLoanAmount |-> loanAmount.v - fees,
                    numPayments        |-> loanTerm.v * 12]

\* mortgageService.calculateAPR called by a client of the service
CallCalculateAPR ==
  \E loanAmount \in LoanAmountValues, interestRate \in InterestRateValues,
     loanTerm \in LoanTermValues, fees \in Fees :
    /\ Idle
    /\ UNCHANGED frontend
    /\ CalculateAPR(loanAmount, interestRate, loanTerm, fees)
    /\ UNCHANGED outer

\* one pass of the loop body that does not break:
\* apr = apr - error / derivative; i++
NewtonIteration ==
  /\ pc = "newton"
  /\ UNCHANGED frontend
  /\ LoopCondition(newton.i)
  /\ \E error \in {CurrentError} :
       /\ ~Converged(error)
       /\ newton' = [newton EXCEPT
                       !.apr = NewtonUpdate(newton.apr, error, newton.monthlyPayment,
                                            newton.adjustedLoanAmount,
                                            newton.numPayments),
                       !.i = newton.i + 1]
  /\ UNCHANGED <<pc, method, args, computed, result, schedule, recommended, amort>>
  /\ UNCHANGED outer

\* the loop ends, by the break or by its condition: return roundToCents(apr)
ReturnAPR ==
  /\ pc = "newton"
  /\ UNCHANGED frontend
  /\ ~LoopCondition(newton.i) \/ \E error \in {CurrentError} : Converged(error)
  /\ pc' = "done"
  /\ result' = Ok(RoundAprToCents(newton.apr))
  /\ UNCHANGED <<method, args, computed, schedule, recommended, amort, newton>>
  /\ UNCHANGED outer

\* mortgageService.findBestLoan(comparisons)
CallFindBestLoan ==
  \E comparisons \in ComparisonLists :
    /\ Idle
    /\ UNCHANGED frontend
    /\ pc' = "done"
    /\ method' = "findBestLoan"
    /\ args' = [NoArgs EXCEPT !.comparisons = comparisons]
    /\ computed' = TRUE
    /\ result' = Ok(NoValue)
    /\ recommended' = FindBestLoan(comparisons)
    /\ UNCHANGED <<schedule, amort, newton>>
    /\ UNCHANGED outer

\* getLoanSummary(loan) up to its call of generateAmortizationSchedule:
\* calculateMonthlyPayment throws what calculatePrincipalAndInterest throws
GetLoanSummary(loan) ==
  \E monthlyPayment \in {CalculateMonthlyPayment(loan)} :
    IF monthlyPayment.status = "error"
    THEN /\ pc' = "done"
         /\ method' = "getLoanSummary"
         /\ args' = NoArgs
         /\ computed' = FALSE
         /\ result' = monthlyPayment
         /\ schedule' = <<>>
         /\ summary' = [NoSummary EXCEPT !.stage = "done", !.loan = loan]
         /\ UNCHANGED <<recommended, amort, newton>>
    ELSE /\ GenerateAmortizationSchedule(loan.loanAmount, loan.interestRate,
                                         loan.loanTerm)
         /\ summary' = [NoSummary EXCEPT !.stage = "schedule", !.loan = loan,
                                         !.monthlyPayment = monthlyPayment.value]

\* mortgageService.getLoanSummary called by a client of the service
CallGetLoanSummary ==
  \E loan \in SummaryLoans :
    /\ Idle
    /\ UNCHANGED frontend
    /\ GetLoanSummary(loan)
    /\ UNCHANGED <<earlier, http>>

\* getLoanSummary after generateAmortizationSchedule returned: the two
\* reduce calls, then the call of calculateAPR
SummaryTotals ==
  /\ summary.stage = "schedule"
  /\ UNCHANGED frontend
  /\ pc = "done" /\ result.status = "ok"
  /\ CalculateAPR(summary.loan.loanAmount, summary.loan.interestRate,
                  summary.loan.loanTerm, summary.loan.fees)
  /\ summary' = [summary EXCEPT
                   !.stage = "apr",
                   !.totalInterest = TotalInterest(schedule, Len(schedule)),
                   !.totalPrincipalAndInterestPaid =
                      TotalPrincipalAndInterestPaid(schedule, Len(schedule)),
                   !.first = IF schedule = <<>> THEN NoValue ELSE schedule[1]]
  /\ UNCHANGED <<earlier, http>>

\* getLoanSummary after calculateAPR returned: calculatePayoffDate reads the
\* clock and the summary is returned; the locals of the two loops are gone
SummaryReturn ==
  /\ summary.stage = "apr"
  /\ UNCHANGED frontend
  /\ pc = "done" /\ result.status = "ok"
  /\ \E today \in Dates :
       summary' = [summary EXCEPT
                     !.stage = "done",
                     !.output = LoanSummary(summary.loan, summary.monthlyPayment,
                                            summary.totalInterest,
                                            summary.totalPrincipalAndInterestPaid,
                                            summary.first, result.value, today)]
  /\ pc' = "done"
  /\ method' = "getLoanSummary"
  /\ args' = NoArgs
  /\ computed' = TRUE
  /\ result' = Ok(NoValue)
  /\ amort' = NoAmort
  /\ newton' = NoNewton
  /\ UNCHANGED <<schedule, recommended, earlier, http>>

\* validateMortgageInput found an error: next(new AppError(errorMessage, 400)),
\* and the controller is not reached
Reject(route, body) ==
  /\ http' = [NoRequest EXCEPT !.stage = "done", !.route = route, !.body = body,
                               !.nextCalls = <<400>>]
  /\ UNCHANGED <<pc, method, args, computed, result, schedule, recommended, amort,
                 newton, summary, earlier>>

\* validateMortgageInput found no error: next(), and the controller of the
\* route runs
Accept(route, body) ==
  [NoRequest EXCEPT !.stage = "controller", !.route = route, !.body = body,
                    !.nextCalls = <<0>>, !.controllerRuns = 1]

\* the end of a controller: res.status(200).json(...) after the service
\* returned, next(error) after it threw
Respond(request, returned) ==
  IF returned.status = "ok"
  THEN [request EXCEPT !.stage = "done", !.response = 200]
  ELSE [request EXCEPT !.stage = "done",
                       !.nextCalls = Append(@, returned.statusCode)]

\* POST /calculate: validateMortgageInput, then calculatePayment
PostCalculate ==
  \E body \in Bodies :
    /\ Idle
    /\ UNCHANGED frontend
    /\ IF ~MortgageSchemaValid(body)
       THEN Reject("/calculate", body)
       ELSE \E returned \in {CalculateMonthlyPayment(body)} :
              /\ pc' = "done"
              /\ method' = "calculateMonthlyPayment"
              /\ result' = returned
              /\ computed' = (returned.status = "ok")
              /\ http' = Respond(Accept("/calculate", body), returned)
              /\ UNCHANGED <<args, schedule, recommended, amort, newton, summary,
                             earlier>>

\* POST /amortization: validateMortgageInput, then generateAmortization up
\* to the loop of the service
PostAmortization ==
  \E body \in Bodies :
    /\ Idle
    /\ UNCHANGED frontend
    /\ IF ~MortgageSchemaValid(body)
       THEN Reject("/amortization", body)
       ELSE /\ GenerateAmortizationSchedule(body.loanAmount, body.interestRate,
                                            body.loanTerm)
            /\ http' = Accept("/amortization", body)
            /\ UNCHANGED <<summary, earlier>>

\* POST /apr: validateMortgageInput, then calculateAPR up to the loop of the
\* service
PostAPR ==
  \E body \in Bodies :
    /\ Idle
    /\ UNCHANGED frontend
    /\ IF ~MortgageSchemaValid(body)
       THEN Reject("/apr", body)
       ELSE /\ CalculateAPR(body.loanAmount, body.interestRate, body.loanTerm,
                            body.fees)
            /\ http' = Accept("/apr", body)
            /\ UNCHANGED <<summary, earlier>>

\* POST /summary: validateMortgageInput, then getLoanSummary up to the first
\* loop of the service
PostSummary ==
  \E body \in Bodies :
    /\ Idle
    /\ UNCHANGED frontend
    /\ IF ~MortgageSchemaValid(body)
       THEN Reject("/summary", body)
       ELSE /\ GetLoanSummary(body)
            /\ http' = Accept("/summary", body)
            /\ UNCHANGED earlier

\* the service call of generateAmortization, calculateAPR or getLoanSummary
\* (the controllers) is over: the response, or next(error)
ControllerResponds ==
  /\ http.stage = "controller"
  /\ UNCHANGED frontend
  /\ http.route \in {"/amortization", "/apr", "/summary"}
  /\ pc = "done"
  /\ summary.stage \in {"none", "done"}
  /\ http' = Respond(http, result)
  /\ UNCHANGED <<pc, method, args, computed, result, schedule, recommended, amort,
                 newton, summary, earlier>>

\* POST /compare: the route has no validation middleware; compareLoans
\* throws on too few loans, and otherwise maps getLoanSummary over them,
\* starting with the first
PostCompare ==
  \E loans \in ComparedBodies :
    /\ Idle
    /\ UNCHANGED frontend
    /\ IF TooFewLoans(loans)
       THEN /\ http' = [NoRequest EXCEPT !.stage = "done", !.route = "/compare",
                                         !.body = loans, !.controllerRuns = 1,
                                         !.nextCalls = <<400>>]
            /\ UNCHANGED <<pc, method, args, computed, result, schedule,
                           recommended, amort, newton, summary>>
       ELSE /\ GetLoanSummary(loans.items[1])
            /\ http' = [NoRequest EXCEPT !.stage = "controller", !.route = "/compare",
                                         !.body = loans, !.controllerRuns = 1,
                                         !.index = 1]
    /\ UNCHANGED earlier

\* getLoanSummary has returned or thrown inside loans.map
SummaryMapped ==
  /\ http.stage = "controller" /\ http.route = "/compare"
  /\ pc = "done" /\ summary.stage = "done"

\* getLoanSummary threw: catch (error) { next(error) }
CompareFails ==
  /\ SummaryMapped
  /\ UNCHANGED frontend
  /\ result.status = "error"
  /\ http' = Respond(http, result)
  /\ UNCHANGED <<pc, method, args, computed, result, schedule, recommended, amort,
                 newton, summary, earlier>>

\* loans.map goes on to the next loan
CompareNextLoan ==
  /\ SummaryMapped
  /\ UNCHANGED frontend
  /\ result.status = "ok"
  /\ http.index < Len(http.body.items)
  /\ GetLoanSummary(http.body.items[http.index + 1])
  /\ http' = [http EXCEPT !.index = http.index + 1,
                          !.comparisons = Append(@, ScenarioOf(http.index,
                                                               summary.output))]
  /\ UNCHANGED earlier

\* loans.map is over: findBestLoan(comparisons) and the response
CompareResponds ==
  /\ SummaryMapped
  /\ UNCHANGED frontend
  /\ result.status = "ok"
  /\ http.index = Len(http.body.items)
  /\ \E comparisons \in {Append(http.comparisons,
                                 ScenarioOf(http.index, summary.output))} :
       /\ recommended' = FindBestLoan(comparisons)
       /\ http' = [http EXCEPT !.stage = "done", !.response = 200,
                               !.comparisons = comparisons]
  /\ UNCHANGED <<pc, method, args, computed, result, schedule, amort, newton,
                 summary, earlier>>

\* a request passes through validateApiKey
CheckApiKey ==
  \E nodeEnv \in NodeEnvs, pieces \in ApiKeyPieces,
     header \in SuppliedKeys, query \in SuppliedKeys :
    /\ Idle
    /\ UNCHANGED frontend
    /\ \E outcome \in {ValidateApiKey(nodeEnv, pieces, header, query)} :
         http' = [NoRequest EXCEPT
                    !.stage = "done",
                    !.route = "validateApiKey",
                    !.body = [nodeEnv |-> nodeEnv, pieces |-> pieces,
                              header |-> header, query |-> query,
                              code |-> outcome],
                    !.nextCalls = IF outcome = "next" THEN <<0>> ELSE <<>>,
                    !.response = IF outcome = "next" THEN 0 ELSE 401]
    /\ UNCHANGED <<pc, method, args, computed, result, schedule, recommended, amort,
                   newton, summary, earlier>>

\* the request has been answered; nothing of it is kept
Finish ==
  /\ http.stage = "done"
  /\ UNCHANGED frontend
  /\ pc' = "idle"
  /\ method' = "none"
  /\ args' = NoArgs
  /\ computed' = FALSE
  /\ result' = NoResult
  /\ schedule' = <<>>
  /\ recommended' = NoComparison
  /\ amort' = NoAmort
  /\ newton' = NoNewton
  /\ summary' = NoSummary
  /\ earlier' = NoEarlier
  /\ http' = NoRequest

\* a call made by a client of the service has returned or thrown
Returned ==
  /\ pc = "done"
  /\ summary.stage \in {"none", "done"}
  /\ http = NoRequest

\* what the call returned
Output ==
  [result |-> result, schedule |-> schedule, recommended |-> recommended,
   summary |-> summary.output]

\* the client calls the same method again: with the same arguments, or for
\* getLoanSummary with the same loanAmount, interestRate and loanTerm and any
\* costs and fees
CallAgain ==
  /\ Returned
  /\ UNCHANGED frontend
  /\ earlier = NoEarlier
  /\ earlier' = [method |-> method, args |-> args, loan |-> summary.loan,
                 output |-> Output]
  /\ UNCHANGED http
  /\ \/ /\ method = "calculatePrincipalAndInterest"
        /\ Repeated(args.loanAmount, args.interestRate, args.fees)
        /\ result' = CalculatePrincipalAndInterest(args.loanAmount, args.interestRate,
                                                   args.loanTerm)
        /\ computed' = (result'.status = "ok")
        /\ UNCHANGED <<pc, method, args, schedule, recommended, amort, newton, summary>>
     \/ /\ method = "generateAmortizationSchedule"
        /\ Repeated(args.loanAmount, args.interestRate, args.fees)
        /\ GenerateAmortizationSchedule(args.loanAmount, args.interestRate,
                                        args.loanTerm)
        /\ UNCHANGED summary
     \/ /\ method = "calculateAPR"
        /\ Repeated(args.loanAmount, args.interestRate, args.fees)
        /\ CalculateAPR(args.loanAmount, args.interestRate, args.loanTerm, args.fees)
        /\ UNCHANGED summary
     \/ /\ method = "findBestLoan"
        /\ recommended' = FindBestLoan(args.comparisons)
        /\ UNCHANGED <<pc, method, args, computed, result, schedule, amort, newton,
                       summary>>
     \/ /\ method = "getLoanSummary"
        /\ \E costs \in RecurringCosts, fees \in SummaryFeesAt(summary.loan.interestRate) :
             GetLoanSummary(Loan(summary.loan.loanAmount, summary.loan.interestRate,
                                 summary.loan.loanTerm, costs, fees))

\* the caller takes the result; the service keeps nothing between calls
Return ==
  /\ Returned
  /\ UNCHANGED frontend
  /\ pc' = "idle"
  /\ method' = "none"
  /\ args' = NoArgs
  /\ computed' = FALSE
  /\ result' = NoResult
  /\ schedule' = <<>>
  /\ recommended' = NoComparison
  /\ amort' = NoAmort
  /\ newton' = NoNewton
  /\ summary' = NoSummary
  /\ earlier' = NoEarlier
  /\ http' = NoRequest

Next ==
  \/ CallCalculatePrincipalAndInterest
  \/ CallGenerateAmortizationSchedule
  \/ ScheduleIteration
  \/ ReturnSchedule
  \/ CallCalculateAPR
  \/ NewtonIteration
  \/ ReturnAPR
  \/ CallFindBestLoan
  \/ CallGetLoanSummary
  \/ SummaryTotals
  \/ SummaryReturn
  \/ CallAgain
  \/ Return
  \/ PostCalculate
  \/ PostAmortization
  \/ PostAPR
  \/ PostSummary
  \/ ControllerResponds
  \/ PostCompare
  \/ CompareFails
  \/ CompareNextLoan
  \/ CompareResponds
  \/ CheckApiKey
  \/ Finish

Spec == Init /\ [][Next]_vars

\* a call runs to completion: the loops are synchronous code
FairSpec ==
  /\ Spec
  /\ WF_vars(ScheduleIteration) /\ WF_vars(ReturnSchedule)
  /\ WF_vars(NewtonIteration) /\ WF_vars(ReturnAPR)

(***************************************************************************)
(* The frontend                                                            *)
(***************************************************************************)
\* what the rejected promise of mortgageAPI carries
CalculateFailed == "Failed to calculate mortgage"
AmortizationFailed == "Failed to get amortization schedule"

\* calculateMortgage(params) up to its first await
CalculateMortgage ==
  \E c \in 1..MaxCalls :
    /\ calls[c].stage = "none"
    /\ \A b \in 1..(c - 1) : calls[b].stage # "none"
    /\ hook' = Begin(hook)
    /\ calls' = [b \in 1..MaxCalls |->
                   IF b = c
                   THEN [NoCall EXCEPT
                           !.stage = "calculate",
                           !.alone = \A a \in 1..MaxCalls : ~InFlight(calls[a])]
                   ELSE IF InFlight(calls[b]) THEN [calls[b] EXCEPT !.alone = FALSE]
                   ELSE calls[b]]
    /\ table' = Render(hook', table)
    /\ UNCHANGED backend

\* mortgageAPI.calculate resolves: calculateMortgage up to its second await
CalculateResolves ==
  \E c \in 1..MaxCalls :
    /\ calls[c].stage = "calculate"
    /\ \E mortgageResults \in {Response("/calculate", c, 0)} :
         /\ hook' = [hook EXCEPT !.results = mortgageResults]
         /\ calls' = [calls EXCEPT ![c].stage = "amortization",
                                   ![c].mortgageResults = mortgageResults]
    /\ table' = Render(hook', table)
    /\ UNCHANGED backend

\* mortgageAPI.calculate rejects: catch, finally, and the error is rethrown
CalculateRejects ==
  \E c \in 1..MaxCalls :
    /\ calls[c].stage = "calculate"
    /\ hook' = Finally(Catch(hook, CalculateFailed))
    /\ calls' = [calls EXCEPT ![c].stage = "rejected",
                              ![c].thrown = String(CalculateFailed)]
    /\ table' = Render(hook', table)
    /\ UNCHANGED backend

\* mortgageAPI.getAmortizationSchedule resolves: calculateMortgage to its
\* return
AmortizationResolves ==
  \E c \in 1..MaxCalls, length \in ScheduleLengths :
    /\ calls[c].stage = "amortization"
    /\ \E response \in {Response("/amortization", c, length)} :
         /\ hook' = Finally([hook EXCEPT !.amortizationSchedule = response])
         /\ calls' = [calls EXCEPT ![c].stage = "fulfilled",
                                   ![c].schedule = response]
    /\ table' = Render(hook', table)
    /\ UNCHANGED backend

\* mortgageAPI.getAmortizationSchedule rejects
AmortizationRejects ==
  \E c \in 1..MaxCalls :
    /\ calls[c].stage = "amortization"
    /\ hook' = Finally(Catch(hook, AmortizationFailed))
    /\ calls' = [calls EXCEPT ![c].stage = "rejected",
                              ![c].thrown = String(AmortizationFailed)]
    /\ table' = Render(hook', table)
    /\ UNCHANGED backend

\* clearError, the onClose of the ErrorAlert that App shows while error is
\* truthy
ClearError ==
  /\ Truthy(hook.error)
  /\ hook' = [hook EXCEPT !.error = Absent]
  /\ table' = Render(hook', table)
  /\ UNCHANGED <<calls, backend>>

\* the table is shown with its buttons: it is mounted and has entries
TableShown == table.mounted /\ TransformedLength(hook.amortizationSchedule) > 0

\* totalPages of the current render
CurrentTotalPages == TotalPages(table.viewMode, hook.amortizationSchedule)

\* the Yearly View button
YearlyView ==
  /\ TableShown
  /\ table' = [table EXCEPT !.viewMode = "yearly", !.currentPage = 1]
  /\ UNCHANGED <<hook, calls, backend>>

\* the Monthly View button
MonthlyView ==
  /\ TableShown
  /\ table' = [table EXCEPT !.viewMode = "monthly", !.currentPage = 1]
  /\ UNCHANGED <<hook, calls, backend>>

Max(a, b) == IF a >= b THEN a ELSE b
Min(a, b) == IF a <= b THEN a ELSE b

\* the Previous button, rendered with more than one page, disabled on page 1
Previous ==
  /\ TableShown
  /\ CurrentTotalPages > 1
  /\ table.currentPage # 1
  /\ table' = [table EXCEPT !.currentPage = Max(@ - 1, 1)]
  /\ UNCHANGED <<hook, calls, backend>>

\* the Next button, rendered with more than one page, disabled on the last
NextPage ==
  /\ TableShown
  /\ CurrentTotalPages > 1
  /\ table.currentPage # CurrentTotalPages
  /\ table' = [table EXCEPT !.currentPage = Min(@ + 1, CurrentTotalPages)]
  /\ UNCHANGED <<hook, calls, backend>>

FrontendNext ==
  \/ CalculateMortgage
  \/ CalculateResolves
  \/ CalculateRejects
  \/ AmortizationResolves
  \/ AmortizationRejects
  \/ ClearError
  \/ YearlyView
  \/ MonthlyView
  \/ Previous
  \/ NextPage

FrontendSpec == Init /\ [][FrontendNext]_vars

(***************************************************************************)
(* Properties of generateAmortizationSchedule                              *)
(***************************************************************************)

\* generateAmortizationSchedule has returned a schedule
ScheduleReturned ==
  pc = "done" /\ method = "generateAmortizationSchedule" /\ computed

\* principal > 0 and term >= 1 year (a rate >= 0 is what validation passed)
ValidLoan == args.loanAmount.v > 0 /\ args.loanTerm.v >= 1

LastEntry == schedule[Len(schedule)]

RECURSIVE SumPrincipal(_)
SumPrincipal(n) ==
  IF n = 0 THEN 0 ELSE schedule[n].principalPayment + SumPrincipal(n - 1)

\* C1: for a valid loan, the last entry of the returned schedule has
\* remainingBalance exactly 0
C1_ZeroBalanceTermination ==
  (ScheduleReturned /\ ValidLoan) =>
    /\ schedule # <<>>
    /\ LastEntry.remainingBalance = 0

\* a two-year schedule that ran through all its periods, the balance still
\* positive before the final one
C1_Witness ==
  /\ ScheduleReturned /\ ValidLoan
  /\ Len(schedule) = 24
  /\ schedule[23].remainingBalance > 0
  /\ LastEntry.remainingBalance = 0

\* C2: for a valid loan, the principalPayment of all entries of the returned
\* schedule sum to loanAmount to within one cent (10 mills)
C2_PrincipalConservation ==
  (ScheduleReturned /\ ValidLoan) =>
    Abs(SumPrincipal(Len(schedule)) - args.loanAmount.v) <= 10

\* a schedule whose final payment was adjusted to the balance and whose
\* principal payments sum to the loan
C2_Witness ==
  /\ ScheduleReturned /\ ValidLoan
  /\ Len(schedule) > 1
  /\ LastEntry.principalPayment # schedule[1].principalPayment
  /\ SumPrincipal(Len(schedule)) = args.loanAmount.v

Calculations ==
  {"calculatePrincipalAndInterest", "generateAmortizationSchedule", "calculateAPR"}

\* negative, NaN, +/-Infinity or not a number
Invalid(value) == value.t \in {"nan", "inf", "ninf", "str"} \/ value.v < 0

InvalidArgs ==
  Invalid(args.loanAmount) \/ Invalid(args.interestRate) \/ Invalid(args.loanTerm)

\* C4: a calculation called with a negative, NaN, infinite or non-number
\* loanAmount, interestRate or loanTerm fails with an AppError 400, returns
\* no number and no schedule, and has done no arithmetic (it never got past
\* validation and entered no loop)
C4_InvalidInputRejected ==
  (method \in Calculations /\ InvalidArgs) =>
    /\ pc = "done"
    /\ result.status = "error" /\ result.statusCode = 400
    /\ result.value = NoValue
    /\ schedule = <<>>
    /\ ~computed /\ amort = NoAmort /\ newton = NoNewton

\* calculateAPR was called with an infinite term and a sound loan amount
C4_Witness ==
  /\ pc = "done" /\ method = "calculateAPR"
  /\ args.loanAmount.t = "num" /\ args.loanAmount.v > 0
  /\ args.interestRate.t = "num" /\ args.interestRate.v > 0
  /\ args.loanTerm = PosInfinity
  /\ result.statusCode = 400

\* C5: calculatePrincipalAndInterest and generateAmortizationSchedule reject
\* a principal <= 0 and a term <= 0 with an error and return no value
C5_ZeroRejected ==
  ( /\ pc = "done"
    /\ method \in {"calculatePrincipalAndInterest", "generateAmortizationSchedule"}
    /\ \/ args.loanAmount.t = "num" /\ args.loanAmount.v <= 0
       \/ args.loanTerm.t = "num" /\ args.loanTerm.v <= 0 ) =>
    result.status = "error"

(***************************************************************************)
(* Properties of calculateAPR                                              *)
(***************************************************************************)
APRReturned == pc = "done" /\ method = "calculateAPR" /\ computed

\* C6: when the iteration of calculateAPR produced a non-finite rate, the
\* call fails with an error instead of returning a rate
C6_NonFiniteFails ==
  (APRReturned /\ newton.apr.t \in {"nan", "inf", "ninf"}) =>
    result.status = "error"

\* C7: the loop of calculateAPR runs at most MaxIterations times, and a call
\* that entered the loop returns
C7_Terminates ==
  /\ [](newton.i <= MaxIterations)
  /\ (pc = "newton") ~> (pc = "done" /\ method = "calculateAPR")

\* calculateAPR returned after using up all its iterations
C7_Witness == APRReturned /\ newton.i = MaxIterations

\* C8: with fees 0, calculateAPR returns exactly the interestRate it was given
C8_ZeroFeesExact ==
  (APRReturned /\ args.fees = 0) => result.value = args.interestRate

\* C9: with 0 < fees < loanAmount and a term of at least a year,
\* calculateAPR returns a rate strictly greater than interestRate
C9_AprAboveNominal ==
  ( /\ APRReturned
    /\ 0 < args.fees /\ args.fees < args.loanAmount.v
    /\ args.loanTerm.v >= 1 ) =>
    /\ result.value.t = "num"
    /\ result.value.v > args.interestRate.v

(***************************************************************************)
(* Properties of findBestLoan                                              *)
(***************************************************************************)
Cost(n) == args.comparisons[n].totals.totalCost

\* C10: of two or more comparisons, findBestLoan returns one of least
\* totalCost, and of those the one with the smallest index
C10_FirstOfCheapest ==
  (pc = "done" /\ method = "findBestLoan" /\ Len(args.comparisons) >= 2) =>
    \E n \in 1..Len(args.comparisons) :
      /\ recommended = args.comparisons[n]
      /\ \A m \in 1..Len(args.comparisons) :
           /\ Cost(n) <= Cost(m)
           /\ Cost(m) = Cost(n) => n <= m

\* the second and the third of three comparisons tie for the least cost
C10_Witness ==
  /\ pc = "done" /\ method = "findBestLoan"
  /\ Len(args.comparisons) = 3
  /\ Cost(2) < Cost(1) /\ Cost(3) = Cost(2)
  /\ recommended.scenario = 2

(***************************************************************************)
(* Further properties of the payment and the schedule                      *)
(***************************************************************************)

\* C13: generateAmortizationSchedule reports an error, and returns no
\* schedule, when the fixed payment is <= the first period's rounded interest
C13_NegativeAmortizationReported ==
  ( /\ ScheduleReturned /\ ValidLoan
    /\ schedule # <<>>
    /\ amort.monthlyPayment.t = "num"
    /\ amort.monthlyPayment.v <= schedule[1].interestPayment ) =>
    result.status = "error"

\* n rounded to cents is v: v is a whole number of cents and n is within
\* half a cent of it, the half rounding up
IsRoundedToCents(v, num, den) ==
  \E cents \in 0..((num \div den) \div 10 + 1) :
    /\ v = 10 * cents
    /\ (2 * cents - 1) * 5 * den <= num
    /\ num < (2 * cents + 1) * 5 * den

\* C17: at interestRate 0, calculatePrincipalAndInterest returns
\* loanAmount / (loanTerm * 12) rounded to cents, for loanAmount > 0 and
\* loanTerm >= 1
C17_ZeroRateStraightLine ==
  ( /\ pc = "done" /\ method = "calculatePrincipalAndInterest" /\ computed
    /\ args.interestRate.v = 0
    /\ ValidLoan ) =>
    /\ result.status = "ok" /\ result.value.t = "num"
    /\ IsRoundedToCents(result.value.v, args.loanAmount.v, args.loanTerm.v * 12)

\* the payment of a loan at rate 0 whose quotient is not a whole number
\* of cents
C17_Witness ==
  /\ pc = "done" /\ method = "calculatePrincipalAndInterest" /\ computed
  /\ args.interestRate.v = 0 /\ ValidLoan
  /\ result.value.v > 0
  /\ result.value.v * args.loanTerm.v * 12 # args.loanAmount.v

\* C18: in every entry of a returned schedule, paymentAmount equals
\* principalPayment + interestPayment to within one cent (10 mills)
C18_PaymentDecomposition ==
  ScheduleReturned =>
    \A n \in 1..Len(schedule) :
      Abs(schedule[n].paymentAmount
          - (schedule[n].principalPayment + schedule[n].interestPayment)) <= 10

\* a schedule with interest in its first entry and a final entry that was
\* corrected to the balance
C18_Witness ==
  /\ ScheduleReturned /\ ValidLoan
  /\ Len(schedule) > 1
  /\ schedule[1].interestPayment > 10
  /\ LastEntry.paymentAmount # schedule[1].paymentAmount

\* C19 as stated: for a valid loan the returned schedule has exactly
\* loanTerm * 12 entries
C19_ExactLength ==
  (ScheduleReturned /\ ValidLoan) => Len(schedule) = args.loanTerm.v * 12

\* C19 amended: for a valid loan the returned schedule has at most
\* loanTerm * 12 entries, and exactly that many unless an earlier payment
\* brought the balance to 0
C19_LengthUnlessPaidOff ==
  (ScheduleReturned /\ ValidLoan) =>
    /\ Len(schedule) >= 1
    /\ Len(schedule) <= args.loanTerm.v * 12
    /\ Len(schedule) = args.loanTerm.v * 12 \/ LastEntry.remainingBalance <= 0

\* a schedule of eleven entries for a one-year loan: the payment rounded up
\* to a cent paid the loan off a period early
C19_Witness ==
  /\ ScheduleReturned /\ ValidLoan
  /\ args.loanTerm.v = 1
  /\ Len(schedule) = 11
  /\ LastEntry.remainingBalance = 0

(***************************************************************************)
(* Properties of getLoanSummary and of repeated calls                      *)
(***************************************************************************)

\* getLoanSummary has returned a summary to a client of the service
SummaryReturned ==
  Returned /\ method = "getLoanSummary" /\ result.status = "ok"

\* the call that returned repeats an earlier call
RepeatsEarlier == Returned /\ earlier # NoEarlier /\ earlier.method = method

\* C14: a core operation called twice with the same arguments returns the
\* same output both times, whatever happened in between
C14_Deterministic ==
  (RepeatsEarlier /\ earlier.args = args /\ earlier.loan = summary.loan) =>
    earlier.output = Output

\* C15: two summaries of loans with the same loanAmount, interestRate and
\* loanTerm have the same principalAndInterest, totalInterest, totalPayments
\* and firstPaymentBreakdown, whatever their costs and fees
C15_CostsAndFeesSeparate ==
  ( /\ RepeatsEarlier /\ SummaryReturned
    /\ earlier.output.result.status = "ok"
    /\ earlier.loan.loanAmount = summary.loan.loanAmount
    /\ earlier.loan.interestRate = summary.loan.interestRate
    /\ earlier.loan.loanTerm = summary.loan.loanTerm ) =>
    /\ earlier.output.summary.monthlyPayment.principalAndInterest
         = summary.output.monthlyPayment.principalAndInterest
    /\ earlier.output.summary.totals.totalInterest
         = summary.output.totals.totalInterest
    /\ earlier.output.summary.totals.totalPayments
         = summary.output.totals.totalPayments
    /\ earlier.output.summary.firstPaymentBreakdown
         = summary.output.firstPaymentBreakdown

\* two summaries of one loan with interest, the second with costs and fees
\* the first did not have
C15_Witness ==
  /\ RepeatsEarlier /\ SummaryReturned
  /\ earlier.output.result.status = "ok"
  /\ earlier.loan.fees # summary.loan.fees
  /\ earlier.loan.propertyTax # summary.loan.propertyTax
  /\ earlier.output.summary.monthlyPayment.totalMonthlyPayment
       # summary.output.monthlyPayment.totalMonthlyPayment
  /\ summary.output.totals.totalInterest > 0

\* C16: totals.totalPayments is the sum of paymentAmount over the schedule,
\* rounded to cents, and is within one cent of totalPrincipal + totalInterest
C16_TotalPaymentsFromSchedule ==
  SummaryReturned =>
    /\ summary.output.totals.totalPayments
         = RoundToCents(Num(TotalPrincipalAndInterestPaid(schedule, Len(schedule)))).v
    /\ Abs(summary.output.totals.totalPayments
           - (summary.output.totals.totalPrincipal
              + summary.output.totals.totalInterest)) <= 10

\* a summary whose totalPayments is not totalMonthlyPayment * loanTerm * 12:
\* the loan has recurring costs
C16_Witness ==
  /\ SummaryReturned
  /\ summary.loan.hoaFees > 0
  /\ summary.output.totals.totalInterest > 0
  /\ summary.output.totals.totalPayments
       # RoundToCents(Num(summary.output.monthlyPayment.totalMonthlyPayment
                          * summary.loan.loanTerm.v * 12)).v

(***************************************************************************)
(* Properties of the routes and the controllers                            *)
(***************************************************************************)

\* compareLoans has sent its response
CompareAnswered ==
  http.stage = "done" /\ http.route = "/compare" /\ http.response = 200

\* C11: for a comparison of two or more loans, recommendedLoan is one of the
\* returned comparisons and its totals.totalCost, the loan's loanAmount +
\* totalInterest + fees, is <= that of every other comparison
C11_RecommendedIsCheapest ==
  CompareAnswered =>
    /\ Len(http.comparisons) = Len(http.body.items)
    /\ Len(http.comparisons) >= 2
    /\ \E n \in 1..Len(http.comparisons) : recommended = http.comparisons[n]
    /\ \A n \in 1..Len(http.comparisons) :
         /\ recommended.totals.totalCost <= http.comparisons[n].totals.totalCost
         /\ http.comparisons[n].totals.totalCost
              = RoundToCents(Num(http.body.items[n].loanAmount.v
                                 + http.comparisons[n].totals.totalInterest
                                 + http.body.items[n].fees)).v

\* a comparison of three loans whose cheapest is neither the first nor the
\* last
C11_Witness ==
  /\ CompareAnswered
  /\ Len(http.comparisons) = 3
  /\ recommended.scenario = 2
  /\ recommended.totals.totalCost < http.comparisons[1].totals.totalCost
  /\ recommended.totals.totalCost < http.comparisons[3].totals.totalCost

\* C12: when loans is not an array or has fewer than two elements,
\* compareLoans passes a 400 error to next(), computes no loan summary and
\* sends no success response
C12_TooFewLoansRejected ==
  ( /\ http.route = "/compare"
    /\ ~http.body.isArray \/ Len(http.body.items) < 2 ) =>
    /\ http.stage = "done"
    /\ http.nextCalls = <<400>>
    /\ http.response = 0
    /\ http.comparisons = <<>>
    /\ summary = NoSummary

\* a request to compare a single loan has been rejected
C12_Witness ==
  /\ http.route = "/compare" /\ http.stage = "done"
  /\ http.body.isArray /\ Len(http.body.items) = 1
  /\ http.nextCalls = <<400>>

\* the routes that validateMortgageInput guards
ValidatedRoutes == {"/calculate", "/amortization", "/apr", "/summary"}

\* C20: on /calculate, /amortization, /apr and /summary the controller runs
\* only for a body within the documented ranges (loan amount $1 to
\* $100,000,000, rate 0 to 50, whole term of 1 to 50); for any other body
\* validateMortgageInput passes a 400 error to next() exactly once and the
\* controller is never invoked
C20_ControllerOnlyInDocumentedRange ==
  (http.route \in ValidatedRoutes /\ ~InDocumentedRange(http.body)) =>
    /\ http.nextCalls = <<400>>
    /\ http.controllerRuns = 0
    /\ http.response = 0

(***************************************************************************)
(* The entries of the schedule                                             *)
(***************************************************************************)

\* C21: the schedule has at most loanTerm * 12 entries, numbered
\* consecutively from 1, and every entry before the last has
\* remainingBalance > 0: generation stops at the first balance <= 0
C21_StopsAtZeroBalance ==
  ScheduleReturned =>
    /\ Len(schedule) <= args.loanTerm.v * 12
    /\ \A n \in 1..Len(schedule) :
         /\ schedule[n].paymentNumber = n
         /\ n < Len(schedule) => schedule[n].remainingBalance > 0

\* a schedule of a loan with interest that stopped before the final period
C21_Witness ==
  /\ ScheduleReturned /\ ValidLoan
  /\ args.interestRate.v > 0
  /\ Len(schedule) > 1
  /\ Len(schedule) < args.loanTerm.v * 12
  /\ LastEntry.remainingBalance = 0

\* the balance before payment n: loanAmount, then the remainingBalance of
\* the entry before
BalanceBefore(n) ==
  IF n = 1 THEN args.loanAmount.v ELSE schedule[n - 1].remainingBalance

\* C22: the interestPayment of entry n is the balance before the payment
\* times interestRate / 100 / 12, rounded to cents; it is 0 at rate 0
C22_InterestOnBalance ==
  ScheduleReturned =>
    \A n \in 1..Len(schedule) :
      /\ IsRoundedToCents(schedule[n].interestPayment,
                          BalanceBefore(n) * args.interestRate.v, 1200000)
      /\ args.interestRate.v = 0 => schedule[n].interestPayment = 0

\* a schedule whose interest falls with the balance
C22_Witness ==
  /\ ScheduleReturned /\ ValidLoan
  /\ Len(schedule) > 2
  /\ schedule[2].interestPayment > 0
  /\ schedule[2].interestPayment < schedule[1].interestPayment

\* C25: every entry but the last has paymentAmount equal to the payment
\* calculatePrincipalAndInterest returns for the same loan
C25_FixedPayment ==
  ScheduleReturned =>
    \A n \in 1..(Len(schedule) - 1) :
      schedule[n].paymentAmount
        = PrincipalAndInterest(args.loanAmount.v, args.interestRate.v,
                               args.loanTerm.v).v

\* a schedule with interest whose last payment differs from the fixed one
C25_Witness ==
  /\ ScheduleReturned /\ ValidLoan
  /\ Len(schedule) > 2
  /\ schedule[1].interestPayment > 0
  /\ schedule[1].paymentAmount = schedule[2].paymentAmount
  /\ LastEntry.paymentAmount # schedule[1].paymentAmount

\* the sum of interestPayment over entries 1..n
RECURSIVE SumInterest(_)
SumInterest(n) ==
  IF n = 0 THEN 0 ELSE schedule[n].interestPayment + SumInterest(n - 1)

\* the cumulative fields are the running sums and do not decrease
RunningSums ==
  \A n \in 1..Len(schedule) :
    /\ schedule[n].cumulativePrincipal = SumPrincipal(n)
    /\ schedule[n].cumulativeInterest = SumInterest(n)
    /\ n > 1 => /\ schedule[n].cumulativePrincipal >= schedule[n - 1].cumulativePrincipal
                /\ schedule[n].cumulativeInterest >= schedule[n - 1].cumulativeInterest

C23_ComparisonValidated ==
  (http.route = "/compare" /\ ~LoanComparisonSchemaValid(http.body)) =>
    /\ http.response = 0
    /\ http.stage = "done" => http.nextCalls = <<400>>
    /\ http.comparisons = <<>>
    /\ summary.output = NoValue

(***************************************************************************)
(* Authentication                                                          *)
(***************************************************************************)

\* validateApiKey has handled a request
ApiKeyChecked == http.stage = "done" /\ http.route = "validateApiKey"

\* the keys of API_KEYS
ConfiguredKeys ==
  {http.body.pieces[n] : n \in 1..Len(http.body.pieces)} \ {""}

\* the request may pass: development mode, no key configured, or the key
\* supplied (in the x-api-key header or, without a header, in the apiKey
\* query parameter) is configured
MayPass ==
  \/ http.body.nodeEnv = String("development")
  \/ ConfiguredKeys = {}
  \/ /\ Truthy(http.body.header)
     /\ http.body.header.value \in ConfiguredKeys
  \/ /\ ~Truthy(http.body.header)
     /\ http.body.query.present
     /\ http.body.query.value \in ConfiguredKeys

\* C24: validateApiKey calls next(), once, and sends nothing exactly when
\* the request may pass; otherwise it sends a 401 response and does not
\* call next()
C24_NextOrUnauthorized ==
  ApiKeyChecked =>
    IF MayPass
    THEN http.nextCalls = <<0>> /\ http.response = 0
    ELSE http.nextCalls = <<>> /\ http.response = 401

\* a request outside development that passes on a key given in the query
\* parameter alone
C24_Witness ==
  /\ ApiKeyChecked
  /\ http.body.nodeEnv = String("production")
  /\ Len(http.body.pieces) = 3
  /\ ~http.body.header.present
  /\ http.body.query = String("k2")
  /\ http.nextCalls = <<0>>

(***************************************************************************)
(* Properties of the frontend                                              *)
(***************************************************************************)

\* call c has just settled, and no other call was in flight while it ran
SettlesAlone(c) == InFlight(calls[c]) /\ ~InFlight(calls'[c]) /\ calls[c].alone

\* C27: a call of calculateMortgage that runs alone settles in one of two
\* ways: fulfilled, with isLoading false, error null and results and
\* amortizationSchedule the two responses of this call; or rejected with the
\* error of the failed request, with isLoading false, error its message,
\* results null and amortizationSchedule empty
C27_SettlesOneOfTwoWays ==
  [][\A c \in 1..MaxCalls :
       SettlesAlone(c) =>
         /\ hook'.isLoading = FALSE
         /\ \/ /\ calls'[c].stage = "fulfilled"
               /\ hook'.error = Absent
               /\ hook'.results = [route |-> "/calculate", call |-> c, length |-> 0]
               /\ hook'.amortizationSchedule.route = "/amortization"
               /\ hook'.amortizationSchedule.call = c
               /\ calls'[c].mortgageResults = hook'.results
               /\ calls'[c].schedule = hook'.amortizationSchedule
            \/ /\ calls'[c].stage = "rejected"
               /\ calls'[c].thrown.present
               /\ hook'.error = calls'[c].thrown
               /\ hook'.results = Null
               /\ hook'.amortizationSchedule = EmptyArray]_vars

\* the first call was rejected by the amortization request after its
\* calculate request had succeeded, the second call was fulfilled
C27_Witness ==
  /\ calls[1].stage = "rejected" /\ calls[1].alone
  /\ calls[1].mortgageResults # Null
  /\ calls[2].stage = "fulfilled" /\ calls[2].alone
  /\ hook.results.call = 2 /\ hook.amortizationSchedule.call = 2
  /\ ~hook.isLoading

\* C28: isLoading is true exactly while at least one call of
\* calculateMortgage has started and not settled
C28_LoadingWhileInFlight ==
  hook.isLoading <=> \E c \in 1..MaxCalls : InFlight(calls[c])

\* C29: whenever results is not null, results and amortizationSchedule are
\* responses to the same call of calculateMortgage
C29_ResultsAndScheduleOfOneCall ==
  hook.results # Null =>
    /\ hook.amortizationSchedule.route = "/amortization"
    /\ hook.amortizationSchedule.call = hook.results.call

\* C30: the page shown by AmortizationTable is between 1 and
\* max(1, totalPages)
C30_CurrentPageInRange ==
  table.mounted =>
    /\ 1 <= table.currentPage
    /\ table.currentPage <= Max(1, CurrentTotalPages)

====
